---- MODULE Spec2Model ----
(***************************************************************************)
(* SupNum chatbot backend (supnum_backend/app): the document store         *)
(* (PostgreSQL rows + Qdrant vectors), the indexing service, the           *)
(* retrieval service, the question handler and the embedding-model         *)
(* singleton.                                                              *)
(*                                                                         *)
(* One request is in flight at a time in Spec and SpecAsk (a request       *)
(* thread runs its handler step by step; every external call may fail).    *)
(* Spec runs the ingestion, deletion and reindexing requests, SpecAsk the  *)
(* query path over an ingested knowledge base, and SpecEmbed interleaves   *)
(* several threads on get_embedding_model.                                 *)
(***************************************************************************)
EXTENDS Integers, Sequences, FiniteSets, TLC

\* ------------------------------------------------------------------ bounds
MaxDocs == 2        \* Document ids the sequence hands out
MaxChunks == 2      \* most chunks smart_chunk yields for one content
MaxChunkId == 4     \* Chunk ids the sequence hands out
MaxLogs == 2        \* QueryLog rows
MaxScore == 2       \* similarity scores are 1..MaxScore
MaxTopK == 2        \* top_k is 1..MaxTopK
NumThreads == 2     \* request threads calling get_embedding_model
MaxCalls == 2       \* calls of get_embedding_model per thread
MaxLen == 8         \* longest text handed to smart_chunk
MaxList == 3        \* longest list handed to deduplicate_chunks
MaxBatches == 2     \* full batches in main_embeddings' input file

\* ------------------------------------------------------- program constants
MaxAttempts == 5    \* "max_retries"
BaseDelay == 5      \* "initial_delay"
BatchSize == 50     \* "batch_size"

VARIABLES
    documents,      \* committed rows of table "documents": [id, content]
    chunks,         \* committed rows of table "chunks": [id, document_id, chunk_index, chunk_text]
    query_logs,     \* committed rows of table "query_logs", in insertion order
    vectors,        \* points of the Qdrant collection: [id, document_id, chunk_index, chunk_text]
    docSeq,         \* last value of the documents.id sequence
    chunkSeq,       \* last value of the chunks.id sequence
    db,             \* the request's Session: the rows its transaction sees
    pc,             \* position of the request in its handler
    op,             \* the operation the request runs
    document_id,    \* document the request works on (0: none yet)
    content,        \* content being chunked
    chunk_records,  \* Chunk records the request added, in order
    chunks_with_scores, \* (chunk, score) pairs the request retrieved
    question,       \* the question / query text of the request
    top_k,          \* retrieval limit of the request
    score_threshold, \* minimum score of the request
    use_context,    \* handle_question's use_context
    results,        \* what search_vectors returned to retrieve_relevant_chunks
    prompt,         \* user instruction sent to the completion service
    context,        \* handle_question's context (<<>> is the empty string)
    llm_result,     \* generate_answer_with_llm's return value
    ret,            \* value the handler returned
    faults,         \* external calls that failed during the request
    pre,            \* store contents when the request started
    deleteCalls,    \* document ids passed to qdrant_client.delete by the request
    llmScript,      \* the completion service's answers to consecutive calls
    llmCalls,       \* requests.post calls made by the request
    waits,          \* time.sleep durations of the request, in order
    model,          \* the _model global: 0 (None) or the instance number
    loads,          \* SentenceTransformer instances constructed so far
    tpc,            \* per thread: position in get_embedding_model
    tcalls,         \* per thread: calls of get_embedding_model started
    tmodel,         \* per thread: value returned by its last call
    text,           \* smart_chunk's text: characters [c, p], p the position in the input
    chunk_size,     \* smart_chunk's chunk_size
    overlap,        \* smart_chunk's overlap
    sc_pc,          \* position in smart_chunk / chunk_text
    paragraphs,     \* paragraphs the for loop of smart_chunk has not visited yet
    current_chunk,  \* smart_chunk's current_chunk
    out_chunks,     \* smart_chunk's chunks
    ct_text,        \* chunk_text's text (the oversized paragraph)
    ct_start,       \* chunk_text's start
    ct_chunks,      \* chunk_text's chunks
    window,         \* [from, end] of the window chunk_text cut last
    ct_seen,        \* values of chunk_text's start at the iterations made so far
    dd_list,        \* deduplicate_chunks' argument
    dd_out,         \* what deduplicate_chunks returned for dd_list
    dd_again,       \* what deduplicate_chunks returned for dd_out
    dd_pc,          \* position of the deduplicate_chunks caller
    me_pc,          \* position in main_embeddings
    input_chunks,   \* main_embeddings' chunks, loaded from the input file
    me_i,           \* main_embeddings' i
    current_retry,  \* main_embeddings' current_retry
    batch_processed, \* main_embeddings' batch_processed
    all_points_data, \* main_embeddings' all_points_data
    output_file,    \* content of the output file (NoFile: not written)
    me_requests,    \* get_mistral_embeddings calls made for the current batch
    me_waits,       \* time.sleep durations during the current batch, in order
    sess            \* per concurrent index_document call: its Session and locals

tables == <<documents, chunks, query_logs>>
seqs == <<docSeq, chunkSeq>>
locals == <<document_id, content, chunk_records, chunks_with_scores, question, top_k,
            score_threshold, use_context, results, prompt, context, llm_result>>
params == <<question, top_k, score_threshold, use_context>>
llmVars == <<llmScript, llmCalls, waits>>
threadVars == <<loads, tpc, tcalls, tmodel>>
chunkerVars == <<text, chunk_size, overlap, sc_pc, paragraphs, current_chunk, out_chunks,
                 ct_text, ct_start, ct_chunks, window, ct_seen>>
dedupVars == <<dd_list, dd_out, dd_again, dd_pc>>
batchVars == <<me_pc, input_chunks, me_i, current_retry, batch_processed, all_points_data,
               output_file, me_requests, me_waits>>
pairVars == <<sess>>
utilVars == <<chunkerVars, dedupVars, batchVars, pairVars>>
vars == <<documents, chunks, query_logs, vectors, docSeq, chunkSeq, db, pc, op,
          document_id, content, chunk_records, chunks_with_scores, question, top_k,
          score_threshold, use_context, results, prompt, context, llm_result,
          ret, faults, pre, deleteCalls, llmScript, llmCalls, waits,
          model, loads, tpc, tcalls, tmodel,
          text, chunk_size, overlap, sc_pc, paragraphs, current_chunk, out_chunks,
          ct_text, ct_start, ct_chunks, window, ct_seen, dd_list, dd_out, dd_again, dd_pc,
          me_pc, input_chunks, me_i, current_retry, batch_processed, all_points_data,
          output_file, me_requests, me_waits, sess>>

Threads == 1..NumThreads
Contents == 0..MaxChunks    \* a content is named by the number of chunks it splits into
Scores == 1..MaxScore

NoRet == [tag |-> "none"]
NoLlm == [tag |-> "none"]
NoPrompt == [kind |-> "none"]
NoWindow == [from |-> 0, end |-> 0]
NoFile == [written |-> FALSE]
Sessions == 1..NumThreads    \* concurrent requests, each with its own Session
IdleSession == [pc |-> "idle", document_id |-> 0, content |-> 0, chunk_records |-> <<>>,
                documents |-> {}, chunks |-> {}, faults |-> {}]
Questions == {"q1"}

\* ------------------------------------------------------------ pure helpers

\* chunks = smart_chunk(content): the ordered chunk texts of a content; text i
\* is the i-th chunk in reading order.
ChunksOf(c) == [i \in 1..c |-> i]

RECURSIVE SeqToSet(_)
SeqToSet(s) == IF s = <<>> THEN {} ELSE {Head(s)} \cup SeqToSet(Tail(s))

RECURSIVE SortByIndex(_)
\* ORDER BY chunk_index
SortByIndex(S) ==
    IF S = {} THEN <<>>
    ELSE LET m == CHOOSE x \in S :
                    \A y \in S : <<x.chunk_index, x.id>> = <<y.chunk_index, y.id>>
                                 \/ x.chunk_index < y.chunk_index
                                 \/ (x.chunk_index = y.chunk_index /\ x.id < y.id)
         IN <<m>> \o SortByIndex(S \ {m})

\* The Session's committed counterpart.
Committed == [documents |-> documents, chunks |-> chunks, query_logs |-> query_logs]

\* db.query(Document).filter(Document.id == d).first() is not None
DocumentExists(s, d) == \E r \in s.documents : r.id = d

DocumentContent(s, d) == (CHOOSE r \in s.documents : r.id = d).content

\* A Document.chunks relationship without the delete cascade.
CascadeNone(chs, d) == chs

\* relationship cascade="all, delete-orphan": the Chunk rows db.delete(document) leaves
CascadeDelete(chs, d) == {c \in chs : c.document_id # d}

\* A delete whose filter matches no point.
DeleteNoPoints(pts, d) == pts

\* qdrant_client.delete with the document_id filter: the points it leaves
delete_by_document_id(pts, d) == {p \in pts : p.document_id # d}

\* qdrant_client.upsert: points are keyed by id
upsert_vectors(pts, new) == {p \in pts : \A n \in new : n.id # p.id} \cup new

\* get_document_chunks(db, document_id)
get_document_chunks(s, d) == SortByIndex({c \in s.chunks : c.document_id = d})

\* Chunk records numbered from 1 instead of enumerate's 0.
OneBasedChunkRecords(d, texts) ==
    [i \in 1..Len(texts) |->
        [id |-> chunkSeq + i, document_id |-> d, chunk_index |-> i,
         chunk_text |-> texts[i]]]

\* Chunk records built by enumerate(zip(chunks, embeddings)), ids from the sequence
NewChunkRecords(d, texts) ==
    [i \in 1..Len(texts) |->
        [id |-> chunkSeq + i, document_id |-> d, chunk_index |-> i - 1,
         chunk_text |-> texts[i]]]

\* PointStruct list built from the chunk records
Points(recs) == SeqToSet(recs)

Snapshot == [documents |-> documents, chunks |-> chunks, vectors |-> vectors,
             nlogs |-> Len(query_logs)]
NoSnapshot == [documents |-> {}, chunks |-> {}, vectors |-> {}, nlogs |-> 0]

\* ------------------------------------------------- retrieval and generation

\* What qdrant_client.search may return under its contract: at most `limit`
\* hits on distinct points, each score >= score_threshold, scores descending.
SearchResults(pts, limit, thr) ==
    LET Hit == [id : {p.id : p \in pts}, score : {x \in Scores : x >= thr}]
    IN {h \in UNION {[1..n -> Hit] : n \in 0..limit} :
          /\ \A i, j \in 1..Len(h) : i # j => h[i].id # h[j].id
          /\ \A i \in 1..Len(h) - 1 : h[i].score >= h[i + 1].score}

\* Pairs built by walking the chunk rows the query returned (ORDER BY chunk_index)
\* instead of the hits.
ResolveInStorageOrder(hits, rows) ==
    LET found == SortByIndex({c \in rows : \E i \in 1..Len(hits) : hits[i].id = c.id})
    IN [k \in 1..Len(found) |->
          [chunk |-> found[k],
           score |-> (CHOOSE h \in SeqToSet(hits) : h.id = found[k].id).score]]

RECURSIVE ResolveUntilMissing(_, _)
\* Pairs built up to the first hit that has no chunk row.
ResolveUntilMissing(hits, rows) ==
    IF hits = <<>> THEN <<>>
    ELSE LET h == Head(hits)
             found == {c \in rows : c.id = h.id}
         IN IF found = {} THEN <<>>
            ELSE <<[chunk |-> CHOOSE c \in found : TRUE, score |-> h.score]>>
                 \o ResolveUntilMissing(Tail(hits), rows)

RECURSIVE ResolveHits(_, _)
\* chunk_map = {chunk.id: chunk ...}; for result in results: chunk = chunk_map.get(result.id);
\* if chunk: chunk_score_pairs.append((chunk, result.score))
ResolveHits(hits, rows) ==
    IF hits = <<>> THEN <<>>
    ELSE LET h == Head(hits)
             found == {c \in rows : c.id = h.id}
         IN (IF found = {} THEN <<>>
             ELSE <<[chunk |-> CHOOSE c \in found : TRUE, score |-> h.score]>>)
            \o ResolveHits(Tail(hits), rows)

RECURSIVE DedupDropsOne(_, _)
\* A loop that stops at the first repeated key it removed.
DedupDropsOne(pairs, seen) ==
    IF pairs = <<>> THEN <<>>
    ELSE LET key == <<Head(pairs).chunk.document_id, Head(pairs).chunk.chunk_index>>
         IN IF key \in seen THEN Tail(pairs)
            ELSE <<Head(pairs)>> \o DedupDropsOne(Tail(pairs), seen \cup {key})

RECURSIVE DedupByDocument(_, _)
\* A key that leaves chunk_index out.
DedupByDocument(pairs, seen) ==
    IF pairs = <<>> THEN <<>>
    ELSE LET key == Head(pairs).chunk.document_id
         IN IF key \in seen THEN DedupByDocument(Tail(pairs), seen)
            ELSE <<Head(pairs)>> \o DedupByDocument(Tail(pairs), seen \cup {key})

RECURSIVE Dedup(_, _)
Dedup(pairs, seen) ==
    IF pairs = <<>> THEN <<>>
    ELSE LET key == <<Head(pairs).chunk.document_id, Head(pairs).chunk.chunk_index>>
         IN IF key \in seen THEN Dedup(Tail(pairs), seen)
            ELSE <<Head(pairs)>> \o Dedup(Tail(pairs), seen \cup {key})

\* deduplicate_chunks(chunks_with_scores)
deduplicate_chunks(pairs) == Dedup(pairs, {})

\* A context that carries its heading also when there is no chunk.
FormatWithHeading(pairs) ==
    <<[rank |-> 0, score |-> 0, chunk |-> 0]>> \o
    [i \in 1..Len(pairs) |-> [rank |-> i, score |-> pairs[i].score, chunk |-> pairs[i].chunk.id]]

\* format_context_for_llm: "" (here <<>>) for no chunks, else one extract per
\* pair with its 1-based rank, score and chunk
format_context_for_llm(pairs) ==
    [i \in 1..Len(pairs) |-> [rank |-> i, score |-> pairs[i].score, chunk |-> pairs[i].chunk.id]]

\* A context built whatever use_context says.
ContextAlways(uc, pairs) == format_context_for_llm(pairs)

\* context = format_context_for_llm(chunks_with_scores) if use_context else ""
ContextFor(uc, pairs) == IF uc THEN format_context_for_llm(pairs) ELSE <<>>

\* the user_prompt generate_answer_with_llm builds
UserPrompt(q, ctx, uc) ==
    IF uc /\ ctx # <<>>
    THEN [kind |-> "grounded", context |-> ctx, question |-> q]
    ELSE [kind |-> "plain", question |-> q]

RECURSIVE SumScores(_)
SumScores(pairs) == IF pairs = <<>> THEN 0 ELSE Head(pairs).score + SumScores(Tail(pairs))

\* An average that is the sum.
SumAsAverage(pairs) == 100 * SumScores(pairs)

\* sum(score ...) / len(chunks_with_scores) if chunks_with_scores else 0, in
\* hundredths of a score unit
AvgScore(pairs) == IF pairs = <<>> THEN 0 ELSE (100 * SumScores(pairs)) \div Len(pairs)

\* db.merge on a fixed key: the new record takes the place of the last one
ReplaceLastLog(logs, rec) ==
    IF logs = <<>> THEN <<rec>> ELSE [logs EXCEPT ![Len(logs)] = rec]

\* db.add(query_log): the INSERT of one more row
AddLog(logs, rec) == Append(logs, rec)

Throttled(n) == [i \in 1..n |-> "429"]

\* Behaviours of the completion service: its answers to consecutive calls
\* ("ok" after the listed ones).
Scripts == {<<>>, <<"429">>, Throttled(MaxAttempts - 1), Throttled(MaxAttempts),
            <<"http_error">>, <<"conn_error">>, <<"malformed">>}

ResponseAt(script, n) == IF n <= Len(script) THEN script[n] ELSE "ok"

\* A call repeated after every failure, up to MaxAttempts requests.
PostCallsRetryingAll(script) ==
    LET failed == {n \in 1..MaxAttempts : \A i \in 1..n : ResponseAt(script, i) # "ok"}
    IN IF Cardinality(failed) >= MaxAttempts THEN MaxAttempts ELSE Cardinality(failed) + 1

\* requests.post calls generate_answer_with_llm makes: one, in a try block
\* without a loop
PostCalls(script) == 1

\* ------------------------------------------------------------------- Init
\* Nothing is being chunked.
ChunkerIdle ==
    /\ text = <<>> /\ chunk_size = 0 /\ overlap = 0 /\ sc_pc = "idle"
    /\ paragraphs = <<>> /\ current_chunk = <<>> /\ out_chunks = <<>>
    /\ ct_text = <<>> /\ ct_start = 0 /\ ct_chunks = <<>> /\ window = NoWindow
    /\ ct_seen = {}

\* Nothing is being deduplicated.
DedupIdle ==
    /\ dd_list = <<>> /\ dd_out = <<>> /\ dd_again = <<>> /\ dd_pc = "idle"

\* main_embeddings is not running.
BatchIdle ==
    /\ me_pc = "idle" /\ input_chunks = <<>> /\ me_i = 0 /\ current_retry = 0
    /\ batch_processed = FALSE /\ all_points_data = <<>> /\ output_file = NoFile
    /\ me_requests = 0 /\ me_waits = <<>>

\* No concurrent index_document calls.
PairIdle == sess = [r \in Sessions |-> IdleSession]

\* The service after startup, no request in flight.
InitService ==
    /\ documents = {} /\ chunks = {} /\ query_logs = <<>> /\ vectors = {}
    /\ docSeq = 0 /\ chunkSeq = 0
    /\ db = [documents |-> {}, chunks |-> {}, query_logs |-> <<>>]
    /\ pc = "idle" /\ op = "none"
    /\ document_id = 0 /\ content = 0 /\ chunk_records = <<>> /\ chunks_with_scores = <<>>
    /\ question = "" /\ top_k = 0 /\ score_threshold = 0 /\ use_context = TRUE
    /\ results = <<>> /\ prompt = NoPrompt /\ context = <<>> /\ llm_result = NoLlm /\ ret = NoRet
    /\ faults = {} /\ pre = NoSnapshot /\ deleteCalls = <<>>
    /\ llmScript = <<>> /\ llmCalls = 0 /\ waits = <<>>
    /\ model = 0 /\ loads = 0
    /\ tpc = [t \in Threads |-> "idle"]
    /\ tcalls = [t \in Threads |-> 0]
    /\ tmodel = [t \in Threads |-> 0]

Init == InitService /\ ChunkerIdle /\ DedupIdle /\ BatchIdle /\ PairIdle

\* A request starts: fresh locals, the store as it is.
Begin(o, d, c, next) ==
    /\ pc = "idle"
    /\ pc' = next /\ op' = o /\ document_id' = d /\ content' = c
    /\ chunk_records' = <<>> /\ chunks_with_scores' = <<>> /\ llm_result' = NoLlm
    /\ results' = <<>> /\ prompt' = NoPrompt /\ context' = <<>>
    /\ ret' = NoRet /\ faults' = {} /\ pre' = Snapshot /\ deleteCalls' = <<>>
    /\ llmScript' = <<>> /\ llmCalls' = 0 /\ waits' = <<>>
    /\ UNCHANGED <<tables, vectors, seqs, db, model, threadVars, utilVars>>

\* An exception leaves the handler at step `step`.
Raise(step) ==
    /\ pc' = "raised" /\ faults' = faults \cup {step}

\* The embedding backend used by one thread at a time: get_embedding_model
\* loads the model on first use, encode may fail.
EmbedOk == /\ model' = (IF model = 0 THEN loads + 1 ELSE model)
           /\ loads' = (IF model = 0 THEN loads + 1 ELSE loads)

\* ---------------------------------------------------------- index_document
IndexStart ==
    /\ docSeq < MaxDocs
    /\ \E c \in Contents :
          /\ chunkSeq + c <= MaxChunkId
          /\ Begin("index", 0, c, "ix_add")
    /\ UNCHANGED params

\* db.add(document); db.flush()
IndexAddDocument ==
    /\ pc = "ix_add"
    /\ \/ /\ docSeq' = docSeq + 1
          /\ document_id' = docSeq + 1
          /\ db' = [db EXCEPT !.documents = @ \cup {[id |-> docSeq + 1, content |-> content]}]
          /\ pc' = "ix_chunk"
          /\ UNCHANGED faults
       \/ /\ Raise("flush_document")
          /\ UNCHANGED <<docSeq, document_id, db>>
    /\ UNCHANGED <<tables, vectors, chunkSeq, op, content, chunk_records, chunks_with_scores,
                   params, results, prompt, context,
                   llm_result, ret, pre, deleteCalls, llmVars,
                   model, threadVars, utilVars>>

\* chunks = smart_chunk(content); if not chunks: db.commit(); return document
IndexChunk ==
    /\ pc = "ix_chunk"
    /\ \/ /\ ChunksOf(content) # <<>>
          /\ pc' = "ix_embed"
          /\ UNCHANGED <<tables, db, ret, faults>>
       \/ /\ ChunksOf(content) = <<>>
          /\ \/ /\ documents' = db.documents /\ chunks' = db.chunks
                /\ query_logs' = db.query_logs
                /\ pc' = "returned"
                /\ ret' = [tag |-> "document", id |-> document_id]
                /\ UNCHANGED <<db, faults>>
             \/ /\ Raise("commit")
                /\ UNCHANGED <<tables, db, ret>>
    /\ UNCHANGED <<vectors, seqs, op, document_id, content, chunk_records, chunks_with_scores,
                   params, results, prompt, context,
                   llm_result, pre, deleteCalls, llmVars,
                   model, threadVars, utilVars>>

\* embeddings = generate_embeddings_batch(chunks)
IndexEmbed ==
    /\ pc = "ix_embed"
    /\ \/ /\ EmbedOk
          /\ pc' = "ix_store"
          /\ UNCHANGED faults
       \/ /\ Raise("embedding")
          /\ UNCHANGED <<model, loads>>
    /\ UNCHANGED <<tables, vectors, seqs, db, op, document_id, content, chunk_records,
                   chunks_with_scores, params, results, prompt, context,
                   llm_result, ret, pre, deleteCalls, llmVars,
                   tpc, tcalls, tmodel, utilVars>>

\* for idx, ... : db.add(chunk_record); db.flush()
IndexStoreChunks ==
    /\ pc = "ix_store"
    /\ \/ /\ LET recs == NewChunkRecords(document_id, ChunksOf(content)) IN
             /\ chunk_records' = recs
             /\ chunkSeq' = chunkSeq + Len(recs)
             /\ db' = [db EXCEPT !.chunks = @ \cup SeqToSet(recs)]
          /\ pc' = "ix_upsert"
          /\ UNCHANGED faults
       \/ /\ Raise("flush_chunks")
          /\ UNCHANGED <<chunk_records, chunkSeq, db>>
    /\ UNCHANGED <<tables, vectors, docSeq, op, document_id, content, chunks_with_scores,
                   params, results, prompt, context,
                   llm_result, ret, pre, deleteCalls, llmVars,
                   model, threadVars, utilVars>>

\* upsert_vectors(points)
IndexUpsert ==
    /\ pc = "ix_upsert"
    /\ \/ /\ vectors' = upsert_vectors(vectors, Points(chunk_records))
          /\ pc' = "ix_commit"
          /\ UNCHANGED faults
       \/ /\ Raise("upsert_vectors")
          /\ UNCHANGED vectors
    /\ UNCHANGED <<tables, seqs, db, op, locals, ret, pre, deleteCalls, llmVars,
                   model, threadVars, utilVars>>

\* db.commit(); return document
IndexCommit ==
    /\ pc = "ix_commit"
    /\ \/ /\ documents' = db.documents /\ chunks' = db.chunks
          /\ query_logs' = db.query_logs
          /\ pc' = "returned"
          /\ ret' = [tag |-> "document", id |-> document_id]
          /\ UNCHANGED faults
       \/ /\ Raise("commit")
          /\ UNCHANGED <<tables, ret>>
    /\ UNCHANGED <<vectors, seqs, db, op, locals, pre, deleteCalls, llmVars,
                   model, threadVars, utilVars>>

\* --------------------------------------------------------- delete_document
DeleteStart ==
    /\ \E d \in 1..MaxDocs : Begin("delete", d, 0, "del_get")
    /\ UNCHANGED params

\* except Exception: db.rollback(); return False
DeleteFailed(step) ==
    /\ db' = Committed
    /\ faults' = faults \cup {step}
    /\ pc' = "returned"
    /\ ret' = [tag |-> "bool", value |-> FALSE]

\* document = db.query(Document)...first(); if not document: return False
DeleteGet ==
    /\ pc = "del_get"
    /\ \/ /\ DocumentExists(db, document_id)
          /\ pc' = "del_vectors"
          /\ UNCHANGED <<db, faults, ret>>
       \/ /\ ~DocumentExists(db, document_id)
          /\ pc' = "returned"
          /\ ret' = [tag |-> "bool", value |-> FALSE]
          /\ UNCHANGED <<db, faults>>
       \/ DeleteFailed("query")
    /\ UNCHANGED <<tables, vectors, seqs, op, locals, pre, deleteCalls, llmVars,
                   model, threadVars, utilVars>>

\* delete_by_document_id(document_id)
DeleteVectors ==
    /\ pc = "del_vectors"
    /\ deleteCalls' = Append(deleteCalls, document_id)
    /\ \/ /\ vectors' = delete_by_document_id(vectors, document_id)
          /\ pc' = "del_rows"
          /\ UNCHANGED <<db, faults, ret>>
       \/ /\ DeleteFailed("delete_vectors")
          /\ UNCHANGED vectors
    /\ UNCHANGED <<tables, seqs, op, locals, pre, llmVars, model, threadVars, utilVars>>

\* db.delete(document); db.commit(); return True
DeleteRows ==
    /\ pc = "del_rows"
    /\ \/ /\ LET after == [db EXCEPT
                    !.documents = {r \in @ : r.id # document_id},
                    !.chunks = CascadeDelete(@, document_id)] IN
             /\ db' = after
             /\ documents' = after.documents /\ chunks' = after.chunks
             /\ query_logs' = after.query_logs
          /\ pc' = "returned"
          /\ ret' = [tag |-> "bool", value |-> TRUE]
          /\ UNCHANGED faults
       \/ /\ DeleteFailed("commit")
          /\ UNCHANGED tables
    /\ UNCHANGED <<vectors, seqs, op, locals, pre, deleteCalls, llmVars,
                   model, threadVars, utilVars>>

\* -------------------------------------------------------- reindex_document
ReindexStart ==
    /\ \E d \in 1..MaxDocs :
          /\ DocumentExists(db, d) => chunkSeq + DocumentContent(db, d) <= MaxChunkId
          /\ Begin("reindex", d, 0, "rx_get")
    /\ UNCHANGED params

\* document = db.query(Document)...first(); if not document: raise ValueError
ReindexGet ==
    /\ pc = "rx_get"
    /\ \/ /\ DocumentExists(db, document_id)
          /\ content' = DocumentContent(db, document_id)
          /\ pc' = "rx_vectors"
          /\ UNCHANGED faults
       \/ /\ ~DocumentExists(db, document_id)
          /\ Raise("not_found")
          /\ UNCHANGED content
    /\ UNCHANGED <<tables, vectors, seqs, db, op, document_id, chunk_records,
                   chunks_with_scores, params, results, prompt, context,
                   llm_result, ret, pre, deleteCalls,
                   llmVars, model, threadVars, utilVars>>

\* delete_by_document_id(document_id)
ReindexDeleteVectors ==
    /\ pc = "rx_vectors"
    /\ deleteCalls' = Append(deleteCalls, document_id)
    /\ \/ /\ vectors' = delete_by_document_id(vectors, document_id)
          /\ pc' = "rx_chunks"
          /\ UNCHANGED faults
       \/ /\ Raise("delete_vectors")
          /\ UNCHANGED vectors
    /\ UNCHANGED <<tables, seqs, db, op, locals, ret, pre, llmVars, model, threadVars, utilVars>>

\* db.query(Chunk).filter(Chunk.document_id == document_id).delete(); db.commit()
ReindexDeleteChunks ==
    /\ pc = "rx_chunks"
    /\ \/ /\ LET after == [db EXCEPT !.chunks = {c \in @ : c.document_id # document_id}] IN
             /\ db' = after
             /\ documents' = after.documents /\ chunks' = after.chunks
             /\ query_logs' = after.query_logs
          /\ pc' = "rx_embed"
          /\ UNCHANGED faults
       \/ /\ Raise("delete_chunks")
          /\ UNCHANGED <<tables, db>>
    /\ UNCHANGED <<vectors, seqs, op, locals, ret, pre, deleteCalls, llmVars,
                   model, threadVars, utilVars>>

\* chunks = smart_chunk(document.content); embeddings = generate_embeddings_batch(chunks)
\* (generate_embeddings_batch returns [] for no texts, without the model)
ReindexEmbed ==
    /\ pc = "rx_embed"
    /\ \/ /\ ChunksOf(content) = <<>>
          /\ pc' = "rx_store"
          /\ UNCHANGED <<model, loads, faults>>
       \/ /\ ChunksOf(content) # <<>>
          /\ \/ /\ EmbedOk
                /\ pc' = "rx_store"
                /\ UNCHANGED faults
             \/ /\ Raise("embedding")
                /\ UNCHANGED <<model, loads>>
    /\ UNCHANGED <<tables, vectors, seqs, db, op, locals, ret, pre, deleteCalls,
                   llmVars, tpc, tcalls, tmodel, utilVars>>

\* for idx, ... : db.add(chunk_record); db.flush()
ReindexStoreChunks ==
    /\ pc = "rx_store"
    /\ \/ /\ LET recs == NewChunkRecords(document_id, ChunksOf(content)) IN
             /\ chunk_records' = recs
             /\ chunkSeq' = chunkSeq + Len(recs)
             /\ db' = [db EXCEPT !.chunks = @ \cup SeqToSet(recs)]
          /\ pc' = "rx_upsert"
          /\ UNCHANGED faults
       \/ /\ ChunksOf(content) # <<>>
          /\ Raise("flush_chunks")
          /\ UNCHANGED <<chunk_records, chunkSeq, db>>
    /\ UNCHANGED <<tables, vectors, docSeq, op, document_id, content,
                   chunks_with_scores, params, results, prompt, context,
                   llm_result, ret, pre, deleteCalls,
                   llmVars, model, threadVars, utilVars>>

\* upsert_vectors(points)
ReindexUpsert ==
    /\ pc = "rx_upsert"
    /\ \/ /\ vectors' = upsert_vectors(vectors, Points(chunk_records))
          /\ pc' = "rx_commit"
          /\ UNCHANGED faults
       \/ /\ Raise("upsert_vectors")
          /\ UNCHANGED vectors
    /\ UNCHANGED <<tables, seqs, db, op, locals, ret, pre, deleteCalls, llmVars,
                   model, threadVars, utilVars>>

\* db.commit(); return document
ReindexCommit ==
    /\ pc = "rx_commit"
    /\ \/ /\ documents' = db.documents /\ chunks' = db.chunks
          /\ query_logs' = db.query_logs
          /\ pc' = "returned"
          /\ ret' = [tag |-> "document", id |-> document_id]
          /\ UNCHANGED faults
       \/ /\ Raise("commit")
          /\ UNCHANGED <<tables, ret>>
    /\ UNCHANGED <<vectors, seqs, db, op, locals, pre, deleteCalls, llmVars,
                   model, threadVars, utilVars>>

\* ------------------------------------------------ retrieve_relevant_chunks
\* POST /search: retrieve_relevant_chunks(db, query, top_k, score_threshold)
SearchStart ==
    /\ \E q \in Questions, k \in 1..MaxTopK, thr \in Scores :
          /\ question' = q /\ top_k' = k /\ score_threshold' = thr
          /\ use_context' = TRUE
    /\ Begin("search", 0, 0, "rt_embed")

\* query_vector = generate_embedding(query)
RetrieveEmbed ==
    /\ pc = "rt_embed"
    /\ \/ /\ EmbedOk
          /\ pc' = "rt_search"
          /\ UNCHANGED faults
       \/ /\ Raise("embedding")
          /\ UNCHANGED <<model, loads>>
    /\ UNCHANGED <<tables, vectors, seqs, db, op, locals, ret, pre, deleteCalls,
                   llmVars, tpc, tcalls, tmodel, utilVars>>

\* The rest of retrieve_relevant_chunks: it returns `pairs`.
Retrieved(pairs) ==
    /\ chunks_with_scores' = pairs
    /\ IF op = "search"
       THEN pc' = "returned" /\ ret' = [tag |-> "pairs", value |-> pairs]
       ELSE pc' = "hq_generate" /\ UNCHANGED ret

\* results = search_vectors(...) (which returns [] when the search raises);
\* if not results: return []; then the hits are resolved against the chunks table
RetrieveSearch ==
    /\ pc = "rt_search"
    /\ \/ \E hits \in SearchResults(vectors, top_k, score_threshold) :
             /\ results' = hits
             /\ Retrieved(ResolveHits(hits, db.chunks))
             /\ UNCHANGED faults
       \/ /\ faults' = faults \cup {"search_vectors"}
          /\ results' = <<>>
          /\ Retrieved(<<>>)
    /\ UNCHANGED <<tables, vectors, seqs, db, op, document_id, content, chunk_records,
                   params, prompt, context, llm_result, pre, deleteCalls, llmVars,
                   model, threadVars, utilVars>>

\* --------------------------------------------------------- handle_question
AskStart ==
    /\ Len(query_logs) < MaxLogs
    /\ \E q \in Questions, k \in 1..MaxTopK, thr \in Scores, uc \in BOOLEAN :
          /\ question' = q /\ top_k' = k /\ score_threshold' = thr
          /\ use_context' = uc
    /\ Begin("ask", 0, 0, "rt_embed")

\* generate_answer_with_llm's try block: one requests.post; a RequestException
\* (raise_for_status on an error status, a connection error) gives the apology
\* result; a body without choices raises KeyError out of the function
LlmOutcome(response) ==
    IF response = "ok" THEN [tag |-> "result", answer |-> "answer", success |-> TRUE]
    ELSE IF response \in {"429", "http_error", "conn_error"}
    THEN [tag |-> "result", answer |-> "apology", success |-> FALSE]
    ELSE [tag |-> "KeyError"]

\* chunks_with_scores = deduplicate_chunks(...); context = ...; llm_result =
\* generate_answer_with_llm(question, context, model, use_context)
HandleGenerate ==
    /\ pc = "hq_generate"
    /\ \E script \in Scripts :
          LET unique == deduplicate_chunks(chunks_with_scores)
              ctx == ContextFor(use_context, unique)
              calls == llmCalls + PostCalls(script)
              out == LlmOutcome(ResponseAt(script, calls))
          IN /\ llmScript' = script
             /\ chunks_with_scores' = unique
             /\ context' = ctx
             /\ prompt' = UserPrompt(question, ctx, use_context)
             /\ llmCalls' = calls
             /\ IF out.tag = "result"
                THEN /\ llm_result' = out
                     /\ pc' = "hq_log"
                     /\ UNCHANGED faults
                ELSE /\ Raise("llm_response")
                     /\ UNCHANGED llm_result
    /\ UNCHANGED <<tables, vectors, seqs, db, op, document_id, content, chunk_records,
                   params, results, ret, pre, deleteCalls, waits, model, threadVars, utilVars>>

\* query_log = QueryLog(...); db.add(query_log); db.commit(); return {...}
HandleLog ==
    /\ pc = "hq_log"
    /\ \/ /\ LET after == [db EXCEPT !.query_logs = AddLog(@,
                    [question |-> question, answer |-> llm_result.answer,
                     chunks_retrieved |-> Len(chunks_with_scores),
                     avg_score |-> AvgScore(chunks_with_scores)])] IN
             /\ db' = after
             /\ documents' = after.documents /\ chunks' = after.chunks
             /\ query_logs' = after.query_logs
          /\ pc' = "returned"
          /\ ret' = [tag |-> "answer", question |-> question,
                     answer |-> llm_result.answer,
                     chunks_used |-> chunks_with_scores,
                     chunks_retrieved |-> Len(chunks_with_scores),
                     avg_similarity |-> AvgScore(chunks_with_scores)]
          /\ UNCHANGED faults
       \/ /\ Raise("commit_log")
          /\ UNCHANGED <<tables, db, ret>>
    /\ UNCHANGED <<vectors, seqs, op, locals, pre, deleteCalls, llmVars,
                   model, threadVars, utilVars>>

\* ------------------------------------------------------------ end of request
\* get_db's finally: db.close() discards what the request did not commit; the
\* route answers and the thread is free for the next request.
CloseSession ==
    /\ pc \in {"returned", "raised"}
    /\ db' = Committed
    /\ pc' = "idle" /\ op' = "none"
    /\ document_id' = 0 /\ content' = 0 /\ chunk_records' = <<>>
    /\ chunks_with_scores' = <<>> /\ llm_result' = NoLlm
    /\ question' = "" /\ top_k' = 0 /\ score_threshold' = 0 /\ use_context' = TRUE
    /\ results' = <<>> /\ prompt' = NoPrompt /\ context' = <<>>
    /\ ret' = NoRet /\ faults' = {} /\ pre' = NoSnapshot /\ deleteCalls' = <<>>
    /\ llmScript' = <<>> /\ llmCalls' = 0 /\ waits' = <<>>
    /\ UNCHANGED <<tables, vectors, seqs, model, threadVars, utilVars>>

\* The document store: ingestion, deletion and reindexing requests.
Next ==
    \/ IndexStart \/ IndexAddDocument \/ IndexChunk \/ IndexEmbed
    \/ IndexStoreChunks \/ IndexUpsert \/ IndexCommit
    \/ DeleteStart \/ DeleteGet \/ DeleteVectors \/ DeleteRows
    \/ ReindexStart \/ ReindexGet \/ ReindexDeleteVectors \/ ReindexDeleteChunks
    \/ ReindexEmbed \/ ReindexStoreChunks \/ ReindexUpsert \/ ReindexCommit
    \/ CloseSession

Spec == Init /\ [][Next]_vars

\* A step of a handler in which no external call raises.
NoFault(A) == A /\ faults' = {}

\* The document store when every step of every call succeeds.
NextNoFault ==
    \/ NoFault(IndexStart) \/ NoFault(IndexAddDocument) \/ NoFault(IndexChunk)
    \/ NoFault(IndexEmbed) \/ NoFault(IndexStoreChunks) \/ NoFault(IndexUpsert)
    \/ NoFault(IndexCommit)
    \/ NoFault(DeleteStart) \/ NoFault(DeleteGet) \/ NoFault(DeleteVectors)
    \/ NoFault(DeleteRows)
    \/ NoFault(ReindexStart) \/ NoFault(ReindexGet) \/ NoFault(ReindexDeleteVectors)
    \/ NoFault(ReindexDeleteChunks) \/ NoFault(ReindexEmbed)
    \/ NoFault(ReindexStoreChunks) \/ NoFault(ReindexUpsert) \/ NoFault(ReindexCommit)
    \/ NoFault(CloseSession)

SpecNoFault == Init /\ [][NextNoFault]_vars

\* The query path over a knowledge base filled by ingestion requests.
NextAsk ==
    \/ IndexStart \/ IndexAddDocument \/ IndexChunk \/ IndexEmbed
    \/ IndexStoreChunks \/ IndexUpsert \/ IndexCommit
    \/ SearchStart \/ RetrieveEmbed \/ RetrieveSearch
    \/ AskStart \/ HandleGenerate \/ HandleLog
    \/ CloseSession

SpecAsk == Init /\ [][NextAsk]_vars

\* Searches over a knowledge base filled by ingestion requests.
NextSearch ==
    \/ IndexStart \/ IndexAddDocument \/ IndexChunk \/ IndexEmbed
    \/ IndexStoreChunks \/ IndexUpsert \/ IndexCommit
    \/ SearchStart \/ RetrieveEmbed \/ RetrieveSearch
    \/ CloseSession

SpecSearch == Init /\ [][NextSearch]_vars

\* Questions answered while documents are ingested, reindexed and deleted (the
\* store handlers on the paths where no call raises).
NextLog ==
    \/ NoFault(IndexStart) \/ NoFault(IndexAddDocument) \/ NoFault(IndexChunk)
    \/ NoFault(IndexEmbed) \/ NoFault(IndexStoreChunks) \/ NoFault(IndexUpsert)
    \/ NoFault(IndexCommit)
    \/ NoFault(DeleteStart) \/ NoFault(DeleteGet) \/ NoFault(DeleteVectors)
    \/ NoFault(DeleteRows)
    \/ NoFault(ReindexStart) \/ NoFault(ReindexGet) \/ NoFault(ReindexDeleteVectors)
    \/ NoFault(ReindexDeleteChunks) \/ NoFault(ReindexEmbed)
    \/ NoFault(ReindexStoreChunks) \/ NoFault(ReindexUpsert) \/ NoFault(ReindexCommit)
    \/ AskStart \/ RetrieveEmbed \/ RetrieveSearch \/ HandleGenerate \/ HandleLog
    \/ CloseSession

SpecLog == Init /\ [][NextLog]_vars

\* ------------------------------------------------------ get_embedding_model
\* Request threads calling get_embedding_model(), one statement at a time.
requestVars == <<tables, vectors, seqs, db, pc, op, locals, ret, faults, pre,
                 deleteCalls, llmVars>>

EmbCall(t) ==
    /\ tpc[t] = "idle" /\ tcalls[t] < MaxCalls
    /\ tpc' = [tpc EXCEPT ![t] = "check"]
    /\ tcalls' = [tcalls EXCEPT ![t] = @ + 1]
    /\ UNCHANGED <<requestVars, utilVars, model, loads, tmodel>>

\* if _model is None:
EmbCheck(t) ==
    /\ tpc[t] = "check"
    /\ tpc' = [tpc EXCEPT ![t] = IF model = 0 THEN "load" ELSE "return"]
    /\ UNCHANGED <<requestVars, utilVars, model, loads, tcalls, tmodel>>

\* SentenceTransformer(EMBEDDING_MODEL): a new instance is constructed
EmbLoad(t) ==
    /\ tpc[t] = "load"
    /\ loads' = loads + 1
    /\ tmodel' = [tmodel EXCEPT ![t] = loads + 1]
    /\ tpc' = [tpc EXCEPT ![t] = "assign"]
    /\ UNCHANGED <<requestVars, utilVars, model, tcalls>>

\* _model = <the instance>
EmbAssign(t) ==
    /\ tpc[t] = "assign"
    /\ model' = tmodel[t]
    /\ tpc' = [tpc EXCEPT ![t] = "return"]
    /\ UNCHANGED <<requestVars, utilVars, loads, tcalls, tmodel>>

\* return _model
EmbReturn(t) ==
    /\ tpc[t] = "return"
    /\ tmodel' = [tmodel EXCEPT ![t] = model]
    /\ tpc' = [tpc EXCEPT ![t] = "idle"]
    /\ UNCHANGED <<requestVars, utilVars, model, loads, tcalls>>

NextEmbed ==
    \E t \in Threads :
        EmbCall(t) \/ EmbCheck(t) \/ EmbLoad(t) \/ EmbAssign(t) \/ EmbReturn(t)

SpecEmbed == Init /\ [][NextEmbed]_vars

\* ------------------------------------------------- smart_chunk, chunk_text
\* A string is a sequence of characters [c |-> the character, p |-> its
\* position in the input text, 0 for a character the chunker inserted].
\* Indices of the operators below are Python's (0-based, negative from the end).
serviceVars == <<requestVars, model, threadVars, batchVars, pairVars>>

Alphabet == {"a", ".", " ", "\n"}
Texts == UNION {[1..n -> Alphabet] : n \in 0..MaxLen}
Settings == {<<4, 1>>, <<6, 2>>}    \* (chunk_size, overlap) of a call
Delimiters == <<<<".", " ">>, <<"!", " ">>, <<"?", " ">>, <<"\n", "\n">>, <<"\n">>>>
Separator == <<[c |-> "\n", p |-> 0], [c |-> "\n", p |-> 0]>>

IsSpace(ch) == ch.c \in {" ", "\n"}

RECURSIVE lstrip(_)
lstrip(s) == IF s # <<>> /\ IsSpace(Head(s)) THEN lstrip(Tail(s)) ELSE s

RECURSIVE rstrip(_)
rstrip(s) == IF s # <<>> /\ IsSpace(s[Len(s)]) THEN rstrip(SubSeq(s, 1, Len(s) - 1)) ELSE s

\* A strip that leaves trailing whitespace.
StripLeftOnly(s) == lstrip(s)

\* str.strip()
strip(s) == rstrip(lstrip(s))

\* A slice bound as Python reads it for a string of length n
Clamp(x, n) == IF x < 0 THEN (IF n + x < 0 THEN 0 ELSE n + x)
               ELSE (IF x > n THEN n ELSE x)

\* s[a:b]
Slice(s, a, b) ==
    LET lo == Clamp(a, Len(s))
        hi == Clamp(b, Len(s))
    IN IF lo >= hi THEN <<>> ELSE SubSeq(s, lo + 1, hi)

\* s.rfind(sub, a, b): the highest index of sub inside s[a:b], or -1
rfind(s, sub, a, b) ==
    LET lo == Clamp(a, Len(s))
        hi == Clamp(b, Len(s))
        hits == {i \in lo..(hi - Len(sub)) : \A k \in 1..Len(sub) : s[i + k].c = sub[k]}
    IN IF hits = {} THEN -1 ELSE CHOOSE i \in hits : \A j \in hits : j <= i

RECURSIVE SplitParagraphs(_, _)
\* text.split('\n\n'), cur being the piece collected so far
SplitParagraphs(s, cur) ==
    IF s = <<>> THEN <<cur>>
    ELSE IF Len(s) >= 2 /\ s[1].c = "\n" /\ s[2].c = "\n"
         THEN <<cur>> \o SplitParagraphs(SubSeq(s, 3, Len(s)), <<>>)
         ELSE SplitParagraphs(Tail(s), Append(cur, Head(s)))

\* [p.strip() for p in text.split('\n\n') if p.strip()]
Paragraphs(s) ==
    LET pieces == SplitParagraphs(s, <<>>)
        stripped == [i \in 1..Len(pieces) |-> strip(pieces[i])]
    IN SelectSeq(stripped, LAMBDA x : x # <<>>)

\* A cut after the rightmost marker of any kind.
CutAtRightmost(s, start, end, k) ==
    LET found == {j \in 1..Len(Delimiters) : rfind(s, Delimiters[j], start, end) # -1}
        cuts == {rfind(s, Delimiters[j], start, end) + Len(Delimiters[j]) : j \in found}
        last_space == rfind(s, <<" ">>, start, end)
    IN IF found # {} THEN CHOOSE c \in cuts : \A d \in cuts : d <= c
       ELSE IF last_space # -1 THEN last_space ELSE end

RECURSIVE CutAt(_, _, _, _)
\* for delimiter in [...]: rfind, break on the first found; else: the last space
CutAt(s, start, end, k) ==
    IF k > Len(Delimiters)
    THEN LET last_space == rfind(s, <<" ">>, start, end)
         IN IF last_space # -1 THEN last_space ELSE end
    ELSE LET last_delimiter == rfind(s, Delimiters[k], start, end)
         IN IF last_delimiter # -1 THEN last_delimiter + Len(Delimiters[k])
            ELSE CutAt(s, start, end, k + 1)

\* end of the window that starts at start
WindowEnd(s, start, size) ==
    LET end == start + size
    IN IF end < Len(s) THEN CutAt(s, start, end, 1) ELSE end

\* A packing test that forgets the two separator characters.
FitsWithoutSeparator(cur, para, size) == Len(cur) + Len(para) <= size

\* len(current_chunk) + len(para) + 2 <= chunk_size
Fits(cur, para, size) == Len(cur) + Len(para) + 2 <= size

\* chunks.append(current_chunk) when it is not empty
Flush(chs, cur) == IF cur # <<>> THEN Append(chs, cur) ELSE chs

\* smart_chunk(text, chunk_size, overlap) is called
InitChunk ==
    /\ InitService /\ DedupIdle /\ BatchIdle /\ PairIdle
    /\ \E t \in Texts : text = [i \in 1..Len(t) |-> [c |-> t[i], p |-> i]]
    /\ \E st \in Settings : chunk_size = st[1] /\ overlap = st[2]
    /\ sc_pc = "call"
    /\ paragraphs = <<>> /\ current_chunk = <<>> /\ out_chunks = <<>>
    /\ ct_text = <<>> /\ ct_start = 0 /\ ct_chunks = <<>> /\ window = NoWindow
    /\ ct_seen = {}

\* if not text: return []; paragraphs = ...
ScCall ==
    /\ sc_pc = "call"
    /\ IF text = <<>> THEN sc_pc' = "done" /\ UNCHANGED paragraphs
       ELSE sc_pc' = "loop" /\ paragraphs' = Paragraphs(text)
    /\ UNCHANGED <<serviceVars, dedupVars, text, chunk_size, overlap, current_chunk,
                   out_chunks, ct_text, ct_start, ct_chunks, window, ct_seen>>

\* one iteration of "for para in paragraphs", up to the call of chunk_text
ScPara ==
    /\ sc_pc = "loop" /\ paragraphs # <<>>
    /\ LET para == Head(paragraphs) IN
       /\ paragraphs' = Tail(paragraphs)
       /\ IF Fits(current_chunk, para, chunk_size)
          THEN /\ current_chunk' = (IF current_chunk # <<>>
                                    THEN current_chunk \o Separator \o para ELSE para)
               /\ UNCHANGED <<out_chunks, sc_pc, ct_text, ct_start, ct_chunks, ct_seen>>
          ELSE /\ out_chunks' = Flush(out_chunks, current_chunk)
               /\ IF Len(para) > chunk_size
                  THEN /\ sc_pc' = "split"
                       /\ ct_text' = para /\ ct_start' = 0 /\ ct_chunks' = <<>>
                       /\ ct_seen' = {}
                       /\ UNCHANGED current_chunk
                  ELSE /\ current_chunk' = para
                       /\ UNCHANGED <<sc_pc, ct_text, ct_start, ct_chunks, ct_seen>>
    /\ UNCHANGED <<serviceVars, dedupVars, text, chunk_size, overlap, window>>

\* one iteration of chunk_text's "while start < text_length"
CtStep ==
    /\ sc_pc \in {"split", "direct"} /\ ct_start < Len(ct_text)
    /\ Len(ct_chunks) < Len(ct_text) + overlap
    /\ LET end == WindowEnd(ct_text, ct_start, chunk_size)
           chunk == strip(Slice(ct_text, ct_start, end))
       IN /\ ct_chunks' = Flush(ct_chunks, chunk)
          /\ ct_start' = (IF end < Len(ct_text) THEN end - overlap ELSE Len(ct_text))
          /\ window' = [from |-> ct_start, end |-> end]
          /\ ct_seen' = ct_seen \cup {ct_start}
    /\ UNCHANGED <<serviceVars, dedupVars, text, chunk_size, overlap, sc_pc, paragraphs,
                   current_chunk, out_chunks, ct_text>>

\* chunk_text returns: chunks.extend(sub_chunks[:-1]); current_chunk = sub_chunks[-1]
CtReturn ==
    /\ sc_pc = "split" /\ ct_start >= Len(ct_text)
    /\ sc_pc' = "loop"
    /\ out_chunks' = out_chunks \o SubSeq(ct_chunks, 1, Len(ct_chunks) - 1)
    /\ current_chunk' = (IF ct_chunks # <<>> THEN ct_chunks[Len(ct_chunks)] ELSE <<>>)
    /\ UNCHANGED <<serviceVars, dedupVars, text, chunk_size, overlap, paragraphs,
                   ct_text, ct_start, ct_chunks, window, ct_seen>>

\* if current_chunk: chunks.append(current_chunk); return chunks
ScReturn ==
    /\ sc_pc = "loop" /\ paragraphs = <<>>
    /\ sc_pc' = "done"
    /\ out_chunks' = Flush(out_chunks, current_chunk)
    /\ UNCHANGED <<serviceVars, dedupVars, text, chunk_size, overlap, paragraphs,
                   current_chunk, ct_text, ct_start, ct_chunks, window, ct_seen>>

NextChunk == ScCall \/ ScPara \/ CtStep \/ CtReturn \/ ScReturn

SpecChunk == InitChunk /\ [][NextChunk]_vars

\* ----------------------------------------------- chunk_text called directly
MaxText == 5        \* longest text handed to chunk_text directly
TextAlphabet == {"a", ".", "!", "?", " ", "\n"}
DirectTexts == UNION {[1..n -> TextAlphabet] : n \in 0..MaxText}
DirectSettings == {<<3, 1>>, <<4, 2>>}    \* (chunk_size, overlap) of a call

\* chunk_text(text, chunk_size, overlap) is called
InitText ==
    /\ InitService /\ DedupIdle /\ BatchIdle /\ PairIdle
    /\ \E t \in DirectTexts : text = [i \in 1..Len(t) |-> [c |-> t[i], p |-> i]]
    /\ \E st \in DirectSettings : chunk_size = st[1] /\ overlap = st[2]
    /\ sc_pc = "ct_call"
    /\ paragraphs = <<>> /\ current_chunk = <<>> /\ out_chunks = <<>>
    /\ ct_text = <<>> /\ ct_start = 0 /\ ct_chunks = <<>> /\ window = NoWindow
    /\ ct_seen = {}

\* if not text: return []; chunks = []; start = 0
CtCall ==
    /\ sc_pc = "ct_call"
    /\ IF text = <<>> THEN sc_pc' = "done" /\ UNCHANGED ct_text
       ELSE sc_pc' = "direct" /\ ct_text' = text
    /\ UNCHANGED <<serviceVars, dedupVars, text, chunk_size, overlap, paragraphs,
                   current_chunk, out_chunks, ct_start, ct_chunks, window, ct_seen>>

\* the loop is left: return chunks
CtDone ==
    /\ sc_pc = "direct" /\ ct_start >= Len(ct_text)
    /\ sc_pc' = "done"
    /\ out_chunks' = ct_chunks
    /\ UNCHANGED <<serviceVars, dedupVars, text, chunk_size, overlap, paragraphs,
                   current_chunk, ct_text, ct_start, ct_chunks, window, ct_seen>>

NextText == CtCall \/ CtStep \/ CtDone

SpecText == InitText /\ [][NextText]_vars

\* ------------------------------------------------------ deduplicate_chunks
\* Lists of (chunk, score) pairs a caller may pass: a chunk row is fixed by its
\* (document_id, chunk_index), the same chunk may come with several scores.
DedupDocs == {1, 2}
DedupIndexes == {0, 1}
DedupPairs ==
    {[chunk |-> [id |-> 2 * d + k, document_id |-> d, chunk_index |-> k, chunk_text |-> k + 1],
      score |-> x] : d \in DedupDocs, k \in DedupIndexes, x \in Scores}
PairLists == UNION {[1..n -> DedupPairs] : n \in 0..MaxList}

InitDedup ==
    /\ InitService /\ ChunkerIdle /\ BatchIdle /\ PairIdle
    /\ dd_list \in PairLists
    /\ dd_out = <<>> /\ dd_again = <<>> /\ dd_pc = "call"

\* chunks_with_scores = deduplicate_chunks(chunks_with_scores)
DedupCall ==
    /\ dd_pc = "call"
    /\ dd_out' = deduplicate_chunks(dd_list)
    /\ dd_pc' = "again"
    /\ UNCHANGED <<serviceVars, chunkerVars, dd_list, dd_again>>

\* the result is passed through deduplicate_chunks once more
DedupAgain ==
    /\ dd_pc = "again"
    /\ dd_again' = deduplicate_chunks(dd_out)
    /\ dd_pc' = "done"
    /\ UNCHANGED <<serviceVars, chunkerVars, dd_list, dd_out>>

NextDedup == DedupCall \/ DedupAgain

SpecDedup == InitDedup /\ [][NextDedup]_vars

\* ---------------------------------------- main_embeddings (batch script)
\* The script app/utils/embeddings.py: it loads the chunk file, embeds the
\* chunks batch by batch through the Mistral API and writes the points file.
\* Every request is answered; the answer is one of Responses.
Responses == {"ok", "429", "http_error", "request_error", "short"}

\* Input files: zero to MaxBatches full batches, with or without one more chunk.
InputSizes == {b * BatchSize + r : b \in 0..MaxBatches, r \in {0, 1}}

InputOfSize(n) == [k \in 1..n |-> [chunk_text |-> k, metadata |-> [chunk |-> k]]]

\* chunks[i:i + batch_size]
BatchOf(list, i) ==
    SubSeq(list, i + 1, IF i + BatchSize <= Len(list) THEN i + BatchSize ELSE Len(list))

PointIdInBatch(i, j) == j + 1

\* "id": i + j + 1
PointId(i, j) == i + j + 1

\* The points appended for the first m items of the batch starting at i;
\* vectors[j] is the embedding of texts_to_embed[j].
BatchPoints(batch, i, m) ==
    [n \in 1..m |-> [id |-> PointId(i, n - 1),
                     vector |-> [of |-> batch[n].chunk_text],
                     payload |-> batch[n].metadata]]

DelayFromRetry(retry) == BaseDelay * (2 ^ retry)

\* delay = initial_delay * (2 ** (current_retry - 1))
Delay(retry) == BaseDelay * (2 ^ (retry - 1))

InitBatch ==
    /\ InitService /\ ChunkerIdle /\ DedupIdle /\ PairIdle
    /\ BatchIdle

batchRest == <<requestVars, model, threadVars, chunkerVars, dedupVars, pairVars>>

\* main_embeddings up to the batch loop: without an API key or a readable
\* input file it returns at once.
MeStart ==
    /\ me_pc = "idle"
    /\ \/ /\ me_pc' = "stopped"
          /\ UNCHANGED input_chunks
       \/ \E n \in InputSizes :
            /\ input_chunks' = InputOfSize(n)
            /\ me_pc' = "outer"
    /\ me_i' = 0
    /\ all_points_data' = <<>>
    /\ me_requests' = 0
    /\ me_waits' = <<>>
    /\ UNCHANGED <<current_retry, batch_processed, output_file, batchRest>>

\* while i < len(chunks): take the batch, reset the retry state.
MeBatch ==
    /\ me_pc = "outer"
    /\ me_i < Len(input_chunks)
    /\ current_retry' = 0
    /\ batch_processed' = FALSE
    /\ me_pc' = "inner"
    /\ UNCHANGED <<input_chunks, me_i, all_points_data, output_file, me_requests, me_waits,
                   batchRest>>

\* One pass of the retry loop: one get_mistral_embeddings call and the
\* handling of its answer.
MeEmbed ==
    /\ me_pc = "inner"
    /\ ~batch_processed /\ current_retry < MaxAttempts
    /\ me_requests' = me_requests + 1
    /\ LET batch == BatchOf(input_chunks, me_i)
       IN \E resp \in Responses :
            CASE resp = "ok" ->
                   /\ all_points_data' =
                        all_points_data \o BatchPoints(batch, me_i, Len(batch))
                   /\ batch_processed' = TRUE
                   /\ UNCHANGED <<me_pc, current_retry, me_waits>>
              [] resp = "429" ->
                   /\ current_retry' = current_retry + 1
                   /\ IF current_retry + 1 < MaxAttempts
                      THEN /\ me_waits' = Append(me_waits, Delay(current_retry + 1))
                           /\ UNCHANGED me_pc
                      ELSE /\ me_pc' = "stopped"
                           /\ UNCHANGED me_waits
                   /\ UNCHANGED <<all_points_data, batch_processed>>
              [] resp \in {"http_error", "request_error"} ->
                   /\ me_pc' = "stopped"
                   /\ UNCHANGED <<all_points_data, batch_processed, current_retry, me_waits>>
              [] resp = "short" ->
                   \* fewer embeddings than texts: vectors[j] raises IndexError,
                   \* which no handler of the script catches
                   /\ all_points_data' =
                        all_points_data \o BatchPoints(batch, me_i, Len(batch) - 1)
                   /\ me_pc' = "crashed"
                   /\ UNCHANGED <<batch_processed, current_retry, me_waits>>
    /\ UNCHANGED <<input_chunks, me_i, output_file, batchRest>>

\* The retry loop is left; if batch_processed: i += batch_size.
MeAdvance ==
    /\ me_pc = "inner"
    /\ ~(~batch_processed /\ current_retry < MaxAttempts)
    /\ IF batch_processed
       THEN /\ me_i' = me_i + BatchSize
            /\ me_requests' = 0
            /\ me_waits' = <<>>
       ELSE UNCHANGED <<me_i, me_requests, me_waits>>
    /\ me_pc' = "outer"
    /\ UNCHANGED <<input_chunks, current_retry, batch_processed, all_points_data,
                   output_file, batchRest>>

\* After the batch loop: json.dump(all_points_data, f).
MeWrite ==
    /\ me_pc = "outer"
    /\ ~(me_i < Len(input_chunks))
    /\ output_file' = [written |-> TRUE, points |-> all_points_data]
    /\ me_pc' = "done"
    /\ UNCHANGED <<input_chunks, me_i, current_retry, batch_processed, all_points_data,
                   me_requests, me_waits, batchRest>>

NextBatch == MeStart \/ MeBatch \/ MeEmbed \/ MeAdvance \/ MeWrite

\* The script is a sequential program that keeps running, and every request
\* it sends is answered.
SpecBatch == InitBatch /\ [][NextBatch]_vars /\ WF_vars(NextBatch)

\* ------------------------------------- concurrent index_document requests
\* Each request thread runs create_document with the Session get_db gave it:
\* rows it adds are pending in its own Session until db.commit(); ids come
\* from the database sequences at flush; Qdrant is shared.
pairRest == <<query_logs, db, pc, op, locals, ret, faults, pre, deleteCalls, llmVars,
              tpc, tcalls, tmodel, chunkerVars, dedupVars, batchVars>>

\* A commit that replaces the table by the Session's rows.
CommitPendingOnly(table, pending) == pending

\* db.commit(): the Session's pending rows become rows of the table
CommitRows(table, pending) == table \cup pending

\* Chunk records of request r, ids from the sequence
SessionChunkRecords(r) == NewChunkRecords(sess[r].document_id, ChunksOf(sess[r].content))

\* The exception leaves create_document; get_db closes the Session, which
\* drops its pending rows.
Fail(r, step) ==
    sess' = [sess EXCEPT ![r] = [@ EXCEPT !.pc = "raised", !.faults = {step},
                                          !.documents = {}, !.chunks = {}]]

InitPair == InitService /\ ChunkerIdle /\ DedupIdle /\ BatchIdle /\ PairIdle

\* POST /documents arrives on a thread
PairStart(r) ==
    /\ sess[r].pc = "idle"
    /\ \E c \in Contents :
         sess' = [sess EXCEPT ![r] = [@ EXCEPT !.pc = "ix_add", !.content = c]]
    /\ UNCHANGED <<documents, chunks, vectors, seqs, model, loads, pairRest>>

\* db.add(document); db.flush()
PairAddDocument(r) ==
    /\ sess[r].pc = "ix_add"
    /\ \/ /\ docSeq < MaxDocs
          /\ docSeq' = docSeq + 1
          /\ sess' = [sess EXCEPT ![r] =
                        [@ EXCEPT !.pc = "ix_chunk", !.document_id = docSeq + 1,
                                  !.documents = {[id |-> docSeq + 1,
                                                  content |-> sess[r].content]}]]
       \/ /\ Fail(r, "flush_document")
          /\ UNCHANGED docSeq
    /\ UNCHANGED <<documents, chunks, vectors, chunkSeq, model, loads, pairRest>>

\* chunks = smart_chunk(content); if not chunks: db.commit(); return document
PairChunk(r) ==
    /\ sess[r].pc = "ix_chunk"
    /\ \/ /\ ChunksOf(sess[r].content) # <<>>
          /\ sess' = [sess EXCEPT ![r].pc = "ix_embed"]
          /\ UNCHANGED documents
       \/ /\ ChunksOf(sess[r].content) = <<>>
          /\ \/ /\ documents' = CommitRows(documents, sess[r].documents)
                /\ sess' = [sess EXCEPT ![r] = [@ EXCEPT !.pc = "returned",
                                                         !.documents = {}]]
             \/ /\ Fail(r, "commit")
                /\ UNCHANGED documents
    /\ UNCHANGED <<chunks, vectors, seqs, model, loads, pairRest>>

\* embeddings = generate_embeddings_batch(chunks)
PairEmbed(r) ==
    /\ sess[r].pc = "ix_embed"
    /\ \/ /\ EmbedOk
          /\ sess' = [sess EXCEPT ![r].pc = "ix_store"]
       \/ /\ Fail(r, "embedding")
          /\ UNCHANGED <<model, loads>>
    /\ UNCHANGED <<documents, chunks, vectors, seqs, pairRest>>

\* for idx, ... : db.add(chunk_record); db.flush()
PairStoreChunks(r) ==
    /\ sess[r].pc = "ix_store"
    /\ \/ /\ chunkSeq + Len(ChunksOf(sess[r].content)) <= MaxChunkId
          /\ LET recs == SessionChunkRecords(r) IN
             /\ chunkSeq' = chunkSeq + Len(recs)
             /\ sess' = [sess EXCEPT ![r] =
                           [@ EXCEPT !.pc = "ix_upsert", !.chunk_records = recs,
                                     !.chunks = SeqToSet(recs)]]
       \/ /\ Fail(r, "flush_chunks")
          /\ UNCHANGED chunkSeq
    /\ UNCHANGED <<documents, chunks, vectors, docSeq, model, loads, pairRest>>

\* upsert_vectors(points)
PairUpsert(r) ==
    /\ sess[r].pc = "ix_upsert"
    /\ \/ /\ vectors' = upsert_vectors(vectors, Points(sess[r].chunk_records))
          /\ sess' = [sess EXCEPT ![r].pc = "ix_commit"]
       \/ /\ Fail(r, "upsert_vectors")
          /\ UNCHANGED vectors
    /\ UNCHANGED <<documents, chunks, seqs, model, loads, pairRest>>

\* db.commit(); return document
PairCommit(r) ==
    /\ sess[r].pc = "ix_commit"
    /\ \/ /\ documents' = CommitRows(documents, sess[r].documents)
          /\ chunks' = CommitRows(chunks, sess[r].chunks)
          /\ sess' = [sess EXCEPT ![r] = [@ EXCEPT !.pc = "returned",
                                                   !.documents = {}, !.chunks = {}]]
       \/ /\ Fail(r, "commit")
          /\ UNCHANGED <<documents, chunks>>
    /\ UNCHANGED <<vectors, seqs, model, loads, pairRest>>

NextPair ==
    \/ \E r \in Sessions : PairStart(r)
    \/ \E r \in Sessions : PairAddDocument(r)
    \/ \E r \in Sessions : PairChunk(r)
    \/ \E r \in Sessions : PairEmbed(r)
    \/ \E r \in Sessions : PairStoreChunks(r)
    \/ \E r \in Sessions : PairUpsert(r)
    \/ \E r \in Sessions : PairCommit(r)

SpecPair == InitPair /\ [][NextPair]_vars

\* ============================================================= properties
Finished == pc \in {"returned", "raised"}

RowsOf(rows, d) == {r \in rows : r.document_id = d}

RECURSIVE Backoff(_, _)
\* n waits, the first of d, each twice the one before
Backoff(n, d) == IF n = 0 THEN <<>> ELSE <<d>> \o Backoff(n - 1, 2 * d)

\* C1: when index_document fails at any step, no Document row, no Chunk row
\* and no vector created by that call remains after the call.
C1_FailedIndexLeavesNothing ==
    (op = "index" /\ pc = "raised") =>
        /\ \A r \in documents : r.id # document_id
        /\ RowsOf(chunks, document_id) = {}
        /\ vectors \cap Points(chunk_records) = {}

\* C2: with a completion service that answers 429 on the first 4 calls and
\* succeeds on the 5th, handle_question returns a successful result, having
\* waited d, 2d, 4d, 8d between the calls.
C2_RetriesThenSucceeds ==
    (op = "ask" /\ pc = "returned" /\ llmScript = Throttled(MaxAttempts - 1)) =>
        /\ llm_result.success
        /\ ret.answer = "answer"
        /\ llmCalls = MaxAttempts
        /\ waits = Backoff(MaxAttempts - 1, BaseDelay)

\* C3: when the completion service answers 429 until the attempts are
\* exhausted, handle_question aborts: it does not return a normal result
\* carrying an answer text.
C3_ExhaustedRetriesAbort ==
    (op = "ask" /\ Finished /\ llmScript = Throttled(MaxAttempts)) => pc = "raised"

\* C4: every handle_question call that reaches the completion-service call
\* ends having appended exactly one QueryLog record for its question, whether
\* generation succeeded or failed.
C4_AlwaysLogged ==
    (op = "ask" /\ Finished /\ llmCalls >= 1) =>
        /\ Len(query_logs) = pre.nlogs + 1
        /\ query_logs[Len(query_logs)].question = question

\* C5: when the completion service produced an answer and writing the
\* QueryLog record fails, handle_question still returns the successful answer.
C5_LogFailureKeepsAnswer ==
    (op = "ask" /\ Finished /\ llm_result.tag = "result" /\ llm_result.success
        /\ "commit_log" \in faults) =>
        (pc = "returned" /\ ret.tag = "answer" /\ ret.answer = llm_result.answer)

\* C6: when the gateway's search fails, retrieve_relevant_chunks surfaces the
\* failure: it never returns an empty list in place of the gateway error.
C6_SearchFailureSurfaces ==
    (op = "search" /\ Finished /\ "search_vectors" \in faults) => pc = "raised"

\* C7: under concurrent first use of get_embedding_model, the embedding
\* backend is constructed at most once in the process.
C7_ModelConstructedOnce == loads <= 1

\* C8: delete_document is atomic across the two stores: after the call the
\* Document row, its Chunk rows and its vectors are all gone, or all as before.
C8_DeleteAtomic ==
    (op = "delete" /\ Finished) =>
        LET d == document_id IN
        \/ /\ \A r \in documents : r.id # d
           /\ RowsOf(chunks, d) = {}
           /\ RowsOf(vectors, d) = {}
        \/ /\ {r \in documents : r.id = d} = {r \in pre.documents : r.id = d}
           /\ RowsOf(chunks, d) = RowsOf(pre.chunks, d)
           /\ RowsOf(vectors, d) = RowsOf(pre.vectors, d)

\* C9: after delete_document(d) returned True for a document that had chunks,
\* get_document_chunks(d) is empty (in the request's session and in a later
\* one), and the gateway's delete-by-document was invoked exactly once, with d.
C9_DeleteEmptiesChunks ==
    (op = "delete" /\ pc = "returned" /\ ret.value
        /\ RowsOf(pre.chunks, document_id) # {}) =>
        /\ get_document_chunks(db, document_id) = <<>>
        /\ get_document_chunks(Committed, document_id) = <<>>
        /\ deleteCalls = <<document_id>>

C9_Witness ==
    /\ op = "delete" /\ pc = "returned" /\ ret.value
    /\ Cardinality(RowsOf(pre.chunks, document_id)) = MaxChunks
    /\ RowsOf(pre.vectors, document_id) # {}

\* C10: when reindex_document fails at any step after it has started, the
\* document's persisted chunks and vectors are the ones it had before the call.
C10_FailedReindexRestores ==
    (op = "reindex" /\ pc = "raised" /\ "not_found" \notin faults) =>
        /\ RowsOf(chunks, document_id) = RowsOf(pre.chunks, document_id)
        /\ RowsOf(vectors, document_id) = RowsOf(pre.vectors, document_id)

\* C11: in every committed state the chunk_index values of the persisted
\* chunks of each document are exactly 0..n-1, without gap or repeat, and
\* chunk i carries the i-th text the chunker emitted for the content.
C11_ChunkIndexesContiguous ==
    \A d \in 1..MaxDocs :
        LET rows == RowsOf(chunks, d) IN
        /\ \A c1, c2 \in rows : c1.chunk_index = c2.chunk_index => c1 = c2
        /\ {c.chunk_index : c \in rows} = 0..(Cardinality(rows) - 1)
        /\ rows # {} =>
              /\ DocumentExists(Committed, d)
              /\ LET emitted == ChunksOf(DocumentContent(Committed, d)) IN
                 /\ Cardinality(rows) = Len(emitted)
                 /\ \A c \in rows : c.chunk_text = emitted[c.chunk_index + 1]

C11_Witness ==
    /\ op = "reindex" /\ pc = "returned"
    /\ Cardinality(RowsOf(chunks, document_id)) = MaxChunks
    /\ Cardinality(RowsOf(pre.chunks, document_id)) = MaxChunks
    /\ RowsOf(chunks, document_id) \cap RowsOf(pre.chunks, document_id) = {}

\* C12: in every committed state reached by index_document, reindex_document
\* and delete_document calls in which no step failed, each persisted chunk has
\* exactly one vector keyed by its id and every vector belongs to a persisted
\* chunk.
C12_VectorsMatchChunks ==
    (pc \in {"idle", "returned"}) =>
        /\ \A c \in chunks : Cardinality({v \in vectors : v.id = c.id}) = 1
        /\ \A v \in vectors : \E c \in chunks : c.id = v.id
        /\ {v.id : v \in vectors} = {c.id : c \in chunks}

C12_Witness ==
    /\ op = "delete" /\ pc = "returned" /\ ret.value
    /\ RowsOf(pre.vectors, document_id) # {}
    /\ chunks # {} /\ vectors # {}

\* Positions of the input text that occur in chunk ch
PositionsIn(ch) == {ch[j].p : j \in 1..Len(ch)} \ {0}

\* C13: every non-whitespace character position of the text lies inside at
\* least one chunk smart_chunk returned.
C13_NoCharacterDropped ==
    (sc_pc = "done") =>
        \A i \in 1..Len(text) :
            ~IsSpace(text[i]) => \E k \in 1..Len(out_chunks) : i \in PositionsIn(out_chunks[k])

\* C14: every chunk smart_chunk returned has length at most chunk_size, also
\* a chunk that packs paragraphs onto the last piece of a split paragraph.
C14_ChunksWithinSize ==
    (sc_pc = "done") => \A k \in 1..Len(out_chunks) : Len(out_chunks[k]) <= chunk_size

\* Chunk k continues the paragraph chunk k-1 ends in, and a later paragraph was
\* packed onto it.
C14_Witness ==
    /\ sc_pc = "done" /\ window # NoWindow
    /\ \E k \in 2..Len(out_chunks) :
          /\ \E j \in 1..Len(out_chunks[k]) : out_chunks[k][j].p = 0
          /\ out_chunks[k - 1][Len(out_chunks[k - 1])].p < out_chunks[k][1].p
          /\ \A i \in out_chunks[k - 1][Len(out_chunks[k - 1])].p .. out_chunks[k][1].p :
                text[i].c # "\n"

\* C15: every chunk smart_chunk returned is non-empty and has no leading and
\* no trailing whitespace.
C15_ChunksStripped ==
    (sc_pc = "done") =>
        \A k \in 1..Len(out_chunks) :
            /\ out_chunks[k] # <<>>
            /\ ~IsSpace(out_chunks[k][1])
            /\ ~IsSpace(out_chunks[k][Len(out_chunks[k])])

C15_Witness ==
    /\ sc_pc = "done" /\ window # NoWindow /\ Len(out_chunks) >= 2
    /\ IsSpace(text[1]) /\ IsSpace(text[Len(text)])
    /\ \E i \in 1..Len(ct_text) - 1 : IsSpace(ct_text[i])

\* Indices of the text inside the window [from, end), as a slice reads them
WindowIndices(s, from, end) == {i \in 0..(Len(s) - 1) : Clamp(from, Len(s)) <= i /\ i < Clamp(end, Len(s))}

\* C16: in chunk_text, when a window ends before the end of the text, the
\* next window starts exactly overlap characters before that end and the two
\* windows share exactly overlap characters of the text.
C16_WindowsShareOverlap ==
    (sc_pc = "split" /\ window # NoWindow /\ window.end < Len(ct_text)) =>
        /\ ct_start = window.end - overlap
        /\ Cardinality(WindowIndices(ct_text, window.from, window.end)
                       \cap WindowIndices(ct_text, ct_start,
                                          WindowEnd(ct_text, ct_start, chunk_size)))
             = overlap

\* C17: the list retrieve_relevant_chunks returns is sorted by score in
\* descending order, every score is >= score_threshold, and it has at most
\* top_k entries.
C17_RetrievedSortedAndBounded ==
    (op = "search" /\ pc = "returned") =>
        LET r == ret.value IN
        /\ Len(r) <= top_k
        /\ \A i \in 1..Len(r) : r[i].score >= score_threshold
        /\ \A i \in 1..Len(r), j \in 1..Len(r) : i < j => r[i].score >= r[j].score

C17_Witness ==
    /\ op = "search" /\ pc = "returned"
    /\ Len(ret.value) = MaxTopK /\ top_k = MaxTopK
    /\ ret.value[1].score > ret.value[Len(ret.value)].score
    /\ ret.value[1].chunk.id > ret.value[Len(ret.value)].chunk.id

\* C18: retrieve_relevant_chunks returns exactly the gateway hits whose ids
\* are in Chunk storage, in the gateway's order, each with the gateway's score;
\* a hit without a stored chunk is skipped and no error is raised.
C18_ReturnsStoredHits ==
    (op = "search" /\ Finished /\ "embedding" \notin faults) =>
        LET stored == SelectSeq(results, LAMBDA h : \E c \in db.chunks : c.id = h.id) IN
        /\ pc = "returned"
        /\ Len(ret.value) = Len(stored)
        /\ \A i \in 1..Len(stored) :
              /\ ret.value[i].chunk \in db.chunks
              /\ ret.value[i].chunk.id = stored[i].id
              /\ ret.value[i].score = stored[i].score

C18_Witness ==
    /\ op = "search" /\ pc = "returned"
    /\ Len(results) = 2 /\ Len(ret.value) = 1
    /\ \A c \in db.chunks : c.id # results[1].id
    /\ ret.value[1].chunk.id = results[2].id

\* (document_id, chunk_index) of a pair
KeyOf(pair) == <<pair.chunk.document_id, pair.chunk.chunk_index>>

\* Indices of L whose key does not occur earlier in L
FirstOccurrences(L) == {i \in 1..Len(L) : \A j \in 1..(i - 1) : KeyOf(L[j]) # KeyOf(L[i])}

\* C19: deduplicate_chunks is idempotent: applying it to its own result gives
\* that result again.
C19_DedupIdempotent ==
    (dd_pc = "done") => dd_again = dd_out

C19_Witness ==
    /\ dd_pc = "done" /\ Len(dd_list) = MaxList
    /\ Len(dd_out) >= 2 /\ Len(dd_out) < Len(dd_list)

Generated == op = "ask" /\ llmCalls >= 1

\* C21: when retrieval finds nothing and use_context is true, handle_question
\* still calls the completion service, with the raw question as the user
\* instruction, and the result has chunks_retrieved = 0 and avg_similarity = 0.
C21_EmptyRetrievalStillAsks ==
    (op = "ask" /\ Finished /\ use_context /\ "embedding" \notin faults
        /\ chunks_with_scores = <<>>) =>
        /\ llmCalls = 1
        /\ prompt = [kind |-> "plain", question |-> question]
        /\ pc = "returned" => (ret.chunks_retrieved = 0 /\ ret.avg_similarity = 0
                               /\ ret.chunks_used = <<>>)

C21_Witness ==
    /\ op = "ask" /\ pc = "returned" /\ use_context
    /\ vectors = {} /\ chunks = {}
    /\ llm_result.success /\ ret.chunks_retrieved = 0

\* C22: the context handed to generation is empty exactly when use_context is
\* false or the deduplicated list is empty; the grounded prompt (context, then
\* question) is sent exactly when the context is non-empty, otherwise the user
\* instruction is the raw question.
C22_ContextAndPrompt ==
    Generated =>
        /\ (context = <<>>) <=> (~use_context \/ chunks_with_scores = <<>>)
        /\ (prompt.kind = "grounded") <=> (context # <<>>)
        /\ context # <<>> =>
              prompt = [kind |-> "grounded", context |-> context, question |-> question]
        /\ context = <<>> => prompt = [kind |-> "plain", question |-> question]

C22_Witness ==
    /\ Generated /\ pc = "hq_log" /\ use_context
    /\ Len(context) = MaxTopK /\ prompt.kind = "grounded"

\* C23: when a completion-service call fails with an error other than "too
\* many requests", handle_question makes exactly one completion call.
C23_NoRetryOnOtherErrors ==
    (op = "ask" /\ Finished /\ llmScript # <<>>
        /\ llmScript[1] \in {"http_error", "conn_error", "malformed"}) =>
        /\ llmCalls = 1
        /\ waits = <<>>

C23_Witness ==
    /\ op = "ask" /\ pc = "returned" /\ llmScript = <<"http_error">>
    /\ ~llm_result.success /\ llmCalls = 1

\* C30: when use_context is false, retrieval and deduplication still run: the
\* prompt is the raw question, and chunks_used, chunks_retrieved and the
\* QueryLog's chunks_retrieved and avg_score describe the retrieved chunks.
C30_StatsWithoutContext ==
    (op = "ask" /\ pc = "returned" /\ ~use_context) =>
        LET stored == SelectSeq(results, LAMBDA h : \E c \in db.chunks : c.id = h.id)
            used == ret.chunks_used
            log == query_logs[Len(query_logs)]
            total == 100 * SumScores(used)
        IN /\ prompt = [kind |-> "plain", question |-> question]
           /\ Len(used) = Len(stored)
           /\ \A i \in 1..Len(used) :
                 used[i].chunk.id = stored[i].id /\ used[i].score = stored[i].score
           /\ ret.chunks_retrieved = Len(used)
           /\ log.chunks_retrieved = Len(used)
           /\ log.avg_score = ret.avg_similarity
           /\ used = <<>> => ret.avg_similarity = 0
           /\ used # <<>> =>
                 /\ ret.avg_similarity * Len(used) <= total
                 /\ total < (ret.avg_similarity + 1) * Len(used)

C30_Witness ==
    /\ op = "ask" /\ pc = "returned" /\ ~use_context
    /\ Len(ret.chunks_used) = MaxTopK
    /\ ret.chunks_used[1].score # ret.chunks_used[2].score

C28_BatchRetryBackoff ==
    /\ me_requests <= 5
    /\ Len(me_waits) <= 4
    /\ me_waits = SubSeq(<<5, 10, 20, 40>>, 1, Len(me_waits))
    /\ me_pc = "inner" /\ ~batch_processed => /\ current_retry = me_requests
                                              /\ Len(me_waits) = current_retry
    /\ me_pc = "stopped" /\ current_retry = 5 => me_requests = 5 /\ Len(me_waits) = 4

C28_Witness ==
    /\ me_pc = "stopped" /\ current_retry = 5
    /\ me_i = BatchSize
    /\ me_waits = <<5, 10, 20, 40>>

MeTerminated == me_pc \in {"done", "stopped", "crashed"}

\* C29: main_embeddings terminates whatever the API answers; the output file
\* is written only when every batch was embedded, and then it holds one point
\* per input chunk, in input order, with ids 1..N.
C29_BatchTerminatesAndWritesAll ==
    /\ <>MeTerminated
    /\ [](output_file.written =>
            /\ me_pc = "done"
            /\ Len(output_file.points) = Len(input_chunks)
            /\ \A k \in 1..Len(input_chunks) :
                 /\ output_file.points[k].id = k
                 /\ output_file.points[k].payload = input_chunks[k].metadata
                 /\ output_file.points[k].vector = [of |-> input_chunks[k].chunk_text])
    /\ [](me_pc \in {"stopped", "crashed"} => ~output_file.written)

C29_Witness ==
    /\ output_file.written
    /\ Len(output_file.points) = MaxBatches * BatchSize + 1

\* The marker kinds, highest priority first.
MarkerKinds == <<<<".", " ">>, <<"!", " ">>, <<"?", " ">>, <<"\n", "\n">>, <<"\n">>>>

\* 0-based offsets inside the window text[from : from + chunk_size] where
\* the marker begins and lies in the window entirely
OccurrencesIn(marker) ==
    LET lo == Clamp(window.from, Len(ct_text))
        hi == Clamp(window.from + chunk_size, Len(ct_text))
    IN {i \in lo..(hi - Len(marker)) :
          \A k \in 1..Len(marker) : ct_text[i + k].c = marker[k]}

KindsInWindow == {k \in 1..Len(MarkerKinds) : OccurrencesIn(MarkerKinds[k]) # {}}

Highest(S) == CHOOSE x \in S : \A y \in S : y <= x

Lowest(S) == CHOOSE x \in S : \A y \in S : x <= y

\* C27: in chunk_text, when the window ends before the end of the text, the
\* cut is right after the last occurrence in the window of the first marker
\* kind (". ", "! ", "? ", blank line, newline) that occurs in the window at
\* all; with no marker it is at the last space, with no space at the raw
\* window boundary.
C27_CutAtFirstMarkerKind ==
    (ct_seen # {} /\ window.from + chunk_size < Len(ct_text)) =>
        IF KindsInWindow # {}
        THEN LET first == MarkerKinds[Lowest(KindsInWindow)]
             IN window.end = Highest(OccurrencesIn(first)) + Len(first)
        ELSE IF OccurrencesIn(<<" ">>) # {}
             THEN window.end = Highest(OccurrencesIn(<<" ">>))
             ELSE window.end = window.from + chunk_size

\* A window holding ". " and, further right, a marker of a later kind.
C27_Witness ==
    /\ ct_seen # {} /\ window.from + chunk_size < Len(ct_text)
    /\ Cardinality(KindsInWindow) >= 2
    /\ \E k \in KindsInWindow \ {Lowest(KindsInWindow)} :
         Highest(OccurrencesIn(MarkerKinds[k]))
           > Highest(OccurrencesIn(MarkerKinds[Lowest(KindsInWindow)]))

\* C26: chunk_text terminates for every text and every 0 < overlap <
\* chunk_size.  The loop's next start offset is a function of the current one,
\* so it terminates exactly when no iteration begins at a start offset that an
\* earlier iteration of the same call began at.
C26_StartNeverRepeats ==
    sc_pc = "direct" => ct_start \notin ct_seen

\* What request r leaves when it runs with no other request around: its
\* Document row once it committed, its Chunk rows (indexes 0..n-1 over its
\* own chunk texts) once it committed, its vectors once it upserted.
HasCommitted(r) == sess[r].pc = "returned"

HasUpserted(r) ==
    \/ sess[r].pc = "ix_commit"
    \/ sess[r].pc = "returned" /\ sess[r].chunk_records # <<>>
    \/ sess[r].pc = "raised" /\ sess[r].faults = {"commit"} /\ sess[r].chunk_records # <<>>

OwnDocument(r) == [id |-> sess[r].document_id, content |-> sess[r].content]

OwnChunks(r) ==
    {[id |-> sess[r].chunk_records[i].id, document_id |-> sess[r].document_id,
      chunk_index |-> i - 1, chunk_text |-> ChunksOf(sess[r].content)[i]] :
        i \in 1..Len(sess[r].chunk_records)}

\* C25: index_document calls for different documents, interleaved in any way,
\* leave the Document rows, Chunk rows and vectors that the calls leave when
\* run one after the other (up to the ids assigned): at every moment the
\* store holds exactly what each call wrote for its own document, under ids
\* no other call uses.
C25_ConcurrentIndexingIndependent ==
    /\ documents = {OwnDocument(r) : r \in {q \in Sessions : HasCommitted(q)}}
    /\ chunks = UNION {OwnChunks(r) : r \in {q \in Sessions : HasCommitted(q)}}
    /\ vectors = UNION {OwnChunks(r) : r \in {q \in Sessions : HasUpserted(q)}}
    /\ \A r \in Sessions :
         /\ Len(sess[r].chunk_records) \in {0, Len(ChunksOf(sess[r].content))}
         /\ Cardinality(OwnChunks(r)) = Len(sess[r].chunk_records)
    /\ \A r, q \in Sessions :
         r # q =>
           /\ sess[r].document_id # 0 => sess[r].document_id # sess[q].document_id
           /\ {c.id : c \in OwnChunks(r)} \cap {c.id : c \in OwnChunks(q)} = {}

\* Interleaved calls that both committed: the call whose document was flushed
\* first had its chunks flushed last.
C25_Witness ==
    /\ \A r \in Sessions : HasCommitted(r) /\ Len(sess[r].chunk_records) >= 1
    /\ \E r, q \in Sessions :
         /\ sess[r].document_id < sess[q].document_id
         /\ sess[r].chunk_records[1].id > sess[q].chunk_records[1].id
         /\ OwnChunks(r) \cup OwnChunks(q) \subseteq chunks

====
